---- MODULE Spec2Model ----
(***************************************************************************)
(* Model of src/src/optimization/map_solver.cpp: the MapSolver constructor *)
(* (statement by statement), AddRegularizer, GetNumDataPoints,             *)
(* GetRegularizationParameterSum and                                       *)
(* MapSolverOptions::AdjustThresholdsAdaptively.                           *)
(*                                                                         *)
(* int values are 32-bit two's complement.  double values are modelled as  *)
(* exact rationals [n, d] in lowest terms (finite values on which the      *)
(* arithmetic of the code is exact; NaN and infinities are not modelled).  *)
(***************************************************************************)
EXTENDS Integers, Sequences, FiniteSets, TLC

\* Bounds of the model.
MaxImages == 3
MaxRegularizers == 3
MaxAdjustCalls == 3

\* std::numeric_limits<int>::max()
INT_MAX == 2147483647

(***************************************************************************)
(* 32-bit int arithmetic.  A product is computed on base-256 limbs so that *)
(* no intermediate value leaves the 32-bit range.                          *)
(***************************************************************************)
Limbs(x) ==
  LET y == IF x >= 0 THEN x ELSE (x + INT_MAX) + 1
      top == IF x >= 0 THEN 0 ELSE 128
  IN  << y % 256, (y \div 256) % 256, (y \div 65536) % 256,
         (y \div 16777216) + top >>

FromLimbs(l) ==
  (IF l[4] >= 128 THEN (l[4] - 256) * 16777216 ELSE l[4] * 16777216)
    + l[3] * 65536 + l[2] * 256 + l[1]

\* a * b in int: the low 32 bits of the product, read as a signed value.
Mul32(a, b) ==
  LET x == Limbs(a)
      y == Limbs(b)
      c1 == x[1] * y[1]
      c2 == x[1] * y[2] + x[2] * y[1] + (c1 \div 256)
      c3 == x[1] * y[3] + x[2] * y[2] + x[3] * y[1] + (c2 \div 256)
      c4 == x[1] * y[4] + x[2] * y[3] + x[3] * y[2] + x[4] * y[1]
              + (c3 \div 256)
  IN  FromLimbs(<< c1 % 256, c2 % 256, c3 % 256, c4 % 256 >>)

\* Whether the product of two non-negative ints overflows int.
MulOverflows(a, b) == a > 0 /\ b > 0 /\ a > INT_MAX \div b

(***************************************************************************)
(* double arithmetic on exact rationals.                                   *)
(***************************************************************************)
Abs(x) == IF x < 0 THEN -x ELSE x

RECURSIVE Gcd(_, _)
Gcd(a, b) == IF b = 0 THEN a ELSE Gcd(b, a % b)

Rat(n, d) ==
  LET g == Gcd(Abs(n), d)
  IN  [n |-> n \div g, d |-> d \div g]

DFromInt(k) == [n |-> k, d |-> 1]
DAdd(x, y) == Rat(x.n * y.d + y.n * x.d, x.d * y.d)
DMul(x, y) == Rat(x.n * y.n, x.d * y.d)
DLess(x, y) == x.n * y.d < y.n * x.d
DLeq(x, y) == x.n * y.d <= y.n * x.d

(***************************************************************************)
(* Inputs.  An ImageData is its size, its channel count and the identity   *)
(* of its pixel content.                                                   *)
(***************************************************************************)
ImageData(w, h, c, p) ==
  [width |-> w, height |-> h, channels |-> c, content |-> p]

LowResImageValues ==
  { ImageData(50, 50, 3, "a"), ImageData(50, 50, 1, "b"),
    ImageData(32768, 16384, 3, "c"), ImageData(32768, 16384, 1, "d"),
    ImageData(32768, 32768, 3, "e"), ImageData(32768, 32768, 1, "f") }

DownsamplingScales == {1, 2}

RECURSIVE SeqsUpTo(_, _)
SeqsUpTo(S, k) ==
  IF k = 0 THEN { << >> }
  ELSE LET shorter == SeqsUpTo(S, k - 1)
       IN  shorter \cup { Append(s, x) : s \in shorter, x \in S }

VARIABLES
  low_res_images,      \* constructor argument
  downsampling_scale,  \* image_model_.GetDownsamplingScale()
  pc,                  \* position in the life of the solver
  i,                   \* loop index of the constructor's loops (0-based)
  elements_read,       \* indices of low_res_images accessed so far
  num_channels_,
  image_size_,
  observations_,
  regularizers_,
  call,                \* the last member function called, with its arguments
  ret_int,             \* value returned by the last GetNumDataPoints
  ret_double,          \* value returned by the last GetRegularizationParameterSum
  options,             \* a MapSolverOptions object
  adjust_calls         \* number of AdjustThresholdsAdaptively calls so far

vars == << low_res_images, downsampling_scale, pc, i, elements_read,
           num_channels_, image_size_, observations_, regularizers_, call,
           ret_int, ret_double, options, adjust_calls >>

solver_state == << num_channels_, image_size_, observations_, regularizers_ >>
input_vars == << low_res_images, downsampling_scale >>
option_vars == << options, adjust_calls >>

Size(w, h) == [width |-> w, height |-> h]

NoCall == [op |-> "none", term |-> "none", weight |-> DFromInt(0),
           num_parameters |-> 0]

(***************************************************************************)
(* MapSolverOptions.                                                       *)
(***************************************************************************)
ThresholdValues ==
  { << Rat(1, 1024), Rat(1, 8), Rat(1, 1) >>,
    << Rat(1, 2), Rat(1, 2), Rat(3, 1) >>,
    << Rat(5, 1), Rat(1, 4), Rat(1, 16) >> }

OptionValues ==
  { [least_squares_solver |-> s,
     use_numerical_differentiation |-> nd,
     numerical_differentiation_step |-> Rat(1, 64),
     split_channels |-> sc,
     gradient_norm_threshold |-> t[1],
     cost_decrease_threshold |-> t[2],
     parameter_variation_threshold |-> t[3]] :
       s \in {"CG_SOLVER", "LBFGS_SOLVER"}, nd \in BOOLEAN, sc \in BOOLEAN,
       t \in ThresholdValues }

DefaultOptions ==
  [least_squares_solver |-> "CG_SOLVER",
   use_numerical_differentiation |-> FALSE,
   numerical_differentiation_step |-> Rat(1, 64),
   split_channels |-> FALSE,
   gradient_norm_threshold |-> Rat(1, 1024),
   cost_decrease_threshold |-> Rat(1, 8),
   parameter_variation_threshold |-> Rat(1, 1)]

(***************************************************************************)
(* MapSolver::MapSolver.                                                   *)
(***************************************************************************)
\* low_res_images[idx]: the element, or any object when idx is past the end
\* (operator[] of std::vector does not check its index).
ReadElement(images, idx) ==
  IF idx < Len(images) THEN { images[idx + 1] } ELSE LowResImageValues

\* Faulty variant: CHECK_GE instead of CHECK_GT.
NonEmptyCheck_AcceptsZero(num_observations) == num_observations >= 0

\* CHECK_GT(num_observations, 0)
NonEmptyCheck(num_observations) == num_observations > 0

\* Faulty variant: the loop stops one image early.
ChannelLoopContinues_SkipsLast(idx, size) == idx < size - 1

\* Loop condition of the channel check: for (int i = 1; i < size(); ++i)
ChannelLoopContinues(idx, size) == idx < size

\* CHECK_EQ(low_res_images[i].GetNumChannels(), num_channels_)
ChannelCheck(image, num_channels) == image.channels = num_channels

\* Faulty variant: the height is derived from the width.
HighResSize_HeightFromWidth(lr_image_size, upsampling_scale) ==
  Size(Mul32(lr_image_size.width, upsampling_scale),
       Mul32(lr_image_size.width, upsampling_scale))

\* cv::Size(lr_image_size.width * upsampling_scale,
\*          lr_image_size.height * upsampling_scale)
HighResSize(lr_image_size, upsampling_scale) ==
  Size(Mul32(lr_image_size.width, upsampling_scale),
       Mul32(lr_image_size.height, upsampling_scale))

\* ImageData::ResizeImage(new_size, INTERPOLATE_NEAREST): the same channels
\* and content resampled onto new_size.
ResizeImage(image, new_size) ==
  [image EXCEPT !.width = new_size.width, !.height = new_size.height]

\* ImageData observation = low_res_image; observation.ResizeImage(...)
Observation(low_res_image, image_size) == ResizeImage(low_res_image, image_size)

CheckNonEmpty ==
  /\ pc = "construct"
  /\ LET num_observations == Len(low_res_images)
     IN  pc' = IF NonEmptyCheck(num_observations) THEN "set_channels"
               ELSE "aborted_in_constructor"
  /\ UNCHANGED << input_vars, i, elements_read, solver_state, call, ret_int,
                  ret_double, option_vars >>

SetNumChannels ==
  /\ pc = "set_channels"
  /\ \E first \in ReadElement(low_res_images, 0) :
       num_channels_' = first.channels
  /\ elements_read' = elements_read \cup {0}
  /\ i' = 1
  /\ pc' = "check_channels"
  /\ UNCHANGED << input_vars, image_size_, observations_, regularizers_, call,
                  ret_int, ret_double, option_vars >>

CheckChannelCount ==
  /\ pc = "check_channels"
  /\ ChannelLoopContinues(i, Len(low_res_images))
  /\ \E image \in ReadElement(low_res_images, i) :
       IF ChannelCheck(image, num_channels_)
       THEN i' = i + 1 /\ pc' = pc
       ELSE i' = i /\ pc' = "aborted_in_constructor"
  /\ elements_read' = elements_read \cup {i}
  /\ UNCHANGED << input_vars, solver_state, call, ret_int, ret_double,
                  option_vars >>

ChannelLoopExit ==
  /\ pc = "check_channels"
  /\ ~ChannelLoopContinues(i, Len(low_res_images))
  /\ pc' = "set_size"
  /\ UNCHANGED << input_vars, i, elements_read, solver_state, call, ret_int,
                  ret_double, option_vars >>

SetImageSize ==
  /\ pc = "set_size"
  /\ LET upsampling_scale == downsampling_scale
     IN  \E first \in ReadElement(low_res_images, 0) :
           image_size_' =
             HighResSize(Size(first.width, first.height), upsampling_scale)
  /\ elements_read' = elements_read \cup {0}
  /\ i' = 0
  /\ pc' = "rescale"
  /\ UNCHANGED << input_vars, num_channels_, observations_, regularizers_,
                  call, ret_int, ret_double, option_vars >>

RescaleObservation ==
  /\ pc = "rescale"
  /\ i < Len(low_res_images)
  /\ observations_' =
       Append(observations_, Observation(low_res_images[i + 1], image_size_))
  /\ elements_read' = elements_read \cup {i}
  /\ i' = i + 1
  /\ UNCHANGED << input_vars, pc, num_channels_, image_size_, regularizers_,
                  call, ret_int, ret_double, option_vars >>

RescaleLoopExit ==
  /\ pc = "rescale"
  /\ i >= Len(low_res_images)
  /\ pc' = "ready"
  /\ UNCHANGED << input_vars, i, elements_read, solver_state, call, ret_int,
                  ret_double, option_vars >>

Construct ==
  \/ CheckNonEmpty
  \/ SetNumChannels
  \/ CheckChannelCount
  \/ ChannelLoopExit
  \/ SetImageSize
  \/ RescaleObservation
  \/ RescaleLoopExit

InitSolver ==
  /\ low_res_images \in SeqsUpTo(LowResImageValues, MaxImages)
  /\ downsampling_scale \in DownsamplingScales
  /\ pc = "construct"
  /\ i = 0
  /\ elements_read = {}
  /\ num_channels_ = 0
  /\ image_size_ = Size(0, 0)
  /\ observations_ = << >>
  /\ regularizers_ = << >>
  /\ call = NoCall
  /\ ret_int = 0
  /\ ret_double = DFromInt(0)

Init ==
  /\ InitSolver
  /\ options = DefaultOptions
  /\ adjust_calls = 0

(***************************************************************************)
(* MapSolver::AddRegularizer.                                              *)
(***************************************************************************)
RegularizerValues == {"tv", "btv"}
WeightValues == { Rat(-1, 1), Rat(3, 2) }

\* std::make_pair(regularizer, regularization_parameter)
MakePair(regularizer, regularization_parameter) ==
  << regularizer, regularization_parameter >>

\* Faulty variants: insertion at the front; assignment instead of append.
PushBack_Front(regularizers, entry) == << entry >> \o regularizers

PushBack_Overwrite(regularizers, entry) == << entry >>

\* regularizers_.push_back(entry)
PushBack(regularizers, entry) == Append(regularizers, entry)

AddRegularizer ==
  /\ pc = "ready"
  /\ Len(regularizers_) < MaxRegularizers
  /\ \E regularizer \in RegularizerValues :
       \E regularization_parameter \in WeightValues :
         /\ regularizers_' =
              PushBack(regularizers_,
                       MakePair(regularizer, regularization_parameter))
         /\ call' = [op |-> "AddRegularizer", term |-> regularizer,
                     weight |-> regularization_parameter,
                     num_parameters |-> 0]
  /\ UNCHANGED << input_vars, pc, i, elements_read, num_channels_,
                  image_size_, observations_, ret_int, ret_double,
                  option_vars >>

(***************************************************************************)
(* MapSolver::GetNumDataPoints.                                            *)
(***************************************************************************)
\* image_size_.width * image_size_.height, in int
GetNumPixels(image_size) == Mul32(image_size.width, image_size.height)

GetNumChannels(num_channels) == num_channels

\* Whether evaluating GetNumPixels() * GetNumChannels() overflows int, in
\* the product of the sizes or in the product with the channel count.
SignedOverflow(image_size, num_channels) ==
  \/ MulOverflows(image_size.width, image_size.height)
  \/ MulOverflows(GetNumPixels(image_size), GetNumChannels(num_channels))

\* The truth values CHECK_LE(num_data_points, INT_MAX) can take.  The long
\* num_data_points is initialised from an int product: without overflow it
\* holds an int value, which is never above INT_MAX.  With overflow the
\* behaviour is undefined: a build that wraps yields an int value again (the
\* check passes), a build that multiplies in a wider register yields the
\* true product (the check fails).
CheckLEOutcomes(image_size, num_channels) ==
  IF SignedOverflow(image_size, num_channels) THEN {TRUE, FALSE} ELSE {TRUE}

\* Faulty variant: the channel count is left out of the product.
NumDataPointsValue_PixelsOnly(image_size, num_channels) ==
  GetNumPixels(image_size)

\* return GetNumPixels() * GetNumChannels(): the int the caller receives.
NumDataPointsValue(image_size, num_channels) ==
  Mul32(GetNumPixels(image_size), GetNumChannels(num_channels))

GetNumDataPoints ==
  /\ pc = "ready"
  /\ \E check_passes \in CheckLEOutcomes(image_size_, num_channels_) :
       IF check_passes
       THEN /\ ret_int' = NumDataPointsValue(image_size_, num_channels_)
            /\ pc' = pc
       ELSE /\ ret_int' = ret_int
            /\ pc' = "aborted_in_query"
  /\ call' = [NoCall EXCEPT !.op = "GetNumDataPoints"]
  /\ UNCHANGED << input_vars, i, elements_read, solver_state, ret_double,
                  option_vars >>

(***************************************************************************)
(* MapSolver::GetRegularizationParameterSum.                               *)
(***************************************************************************)
RECURSIVE SumFrom(_, _, _)
\* The loop: regularization_parameter_sum += regularizer_and_parameter.second
SumFrom(regularizers, k, regularization_parameter_sum) ==
  IF k > Len(regularizers) THEN regularization_parameter_sum
  ELSE SumFrom(regularizers, k + 1,
               DAdd(regularization_parameter_sum, regularizers[k][2]))

\* Faulty variant: the loop starts at the second entry.
RegularizationParameterSum_SkipsFirst(regularizers) ==
  SumFrom(regularizers, 2, DFromInt(0))

RegularizationParameterSum(regularizers) ==
  SumFrom(regularizers, 1, DFromInt(0))

GetRegularizationParameterSum ==
  /\ pc = "ready"
  /\ ret_double' = RegularizationParameterSum(regularizers_)
  /\ call' = [NoCall EXCEPT !.op = "GetRegularizationParameterSum"]
  /\ UNCHANGED << input_vars, pc, i, elements_read, solver_state, ret_int,
                  option_vars >>

Next ==
  \/ Construct
  \/ AddRegularizer
  \/ GetNumDataPoints
  \/ GetRegularizationParameterSum

Spec == Init /\ [][Next]_vars

(***************************************************************************)
(* MapSolverOptions::AdjustThresholdsAdaptively.                           *)
(***************************************************************************)
NumParameterValues == 0 .. 3
WeightSumValues == { Rat(-1, 1), Rat(0, 1), Rat(1, 4), Rat(1, 2), Rat(1, 1),
                     Rat(3, 2) }

\* const double threshold_scale = num_parameters * regularization_parameter_sum
ThresholdScale(num_parameters, regularization_parameter_sum) ==
  DMul(DFromInt(num_parameters), regularization_parameter_sum)

\* Faulty variant: returns early only for a negative scale.
ReturnsEarly_OnlyNegative(threshold_scale) ==
  DLess(threshold_scale, DFromInt(0))

\* if (threshold_scale < 1.0) return;
ReturnsEarly(threshold_scale) == DLess(threshold_scale, DFromInt(1))

\* Faulty variant: cost_decrease_threshold is not scaled.
ScaledOptions_TwoThresholds(opts, threshold_scale) ==
  [opts EXCEPT
     !.gradient_norm_threshold = DMul(@, threshold_scale),
     !.parameter_variation_threshold = DMul(@, threshold_scale)]

\* The three *= threshold_scale statements.
ScaledOptions(opts, threshold_scale) ==
  [opts EXCEPT
     !.gradient_norm_threshold = DMul(@, threshold_scale),
     !.cost_decrease_threshold = DMul(@, threshold_scale),
     !.parameter_variation_threshold = DMul(@, threshold_scale)]

AdjustedOptions(opts, num_parameters, regularization_parameter_sum) ==
  LET threshold_scale ==
        ThresholdScale(num_parameters, regularization_parameter_sum)
  IN  IF ReturnsEarly(threshold_scale) THEN opts
      ELSE ScaledOptions(opts, threshold_scale)

AdjustThresholdsAdaptively ==
  /\ adjust_calls < MaxAdjustCalls
  /\ \E num_parameters \in NumParameterValues :
       \E regularization_parameter_sum \in WeightSumValues :
         /\ options' = AdjustedOptions(options, num_parameters,
                                       regularization_parameter_sum)
         /\ call' = [op |-> "AdjustThresholdsAdaptively", term |-> "none",
                     weight |-> regularization_parameter_sum,
                     num_parameters |-> num_parameters]
  /\ adjust_calls' = adjust_calls + 1
  /\ UNCHANGED << input_vars, pc, i, elements_read, solver_state, ret_int,
                  ret_double >>

InitOptions ==
  /\ options \in OptionValues
  /\ adjust_calls = 0
  /\ low_res_images = << >>
  /\ downsampling_scale = 1
  /\ pc = "construct"
  /\ i = 0
  /\ elements_read = {}
  /\ num_channels_ = 0
  /\ image_size_ = Size(0, 0)
  /\ observations_ = << >>
  /\ regularizers_ = << >>
  /\ call = NoCall
  /\ ret_int = 0
  /\ ret_double = DFromInt(0)

NextOptions == AdjustThresholdsAdaptively

SpecOptions == InitOptions /\ [][NextOptions]_vars

(***************************************************************************)
(* Properties.                                                             *)
(***************************************************************************)
Constructed == pc \in {"ready", "aborted_in_query"}

ConsistentInput ==
  /\ low_res_images # << >>
  /\ \A k \in 1 .. Len(low_res_images) :
       low_res_images[k].channels = low_res_images[1].channels

\* The mathematical product width * height * channels is above INT_MAX.
ProductExceedsIntMax(image_size, num_channels) ==
  /\ image_size.width > 0
  /\ image_size.height > 0
  /\ num_channels > 0
  /\ \/ image_size.width > INT_MAX \div image_size.height
     \/ image_size.width * image_size.height > INT_MAX \div num_channels

\* C1: constructing from a non-empty list of N images that all have the
\* channel count c of the first, whose size is (w, h), with scale factor s,
\* never fails, and the constructed solver has image size (w*s, h*s),
\* channel count c and exactly N observations in input order, each of size
\* (w*s, h*s) and channel count c, whatever the raw sizes of the other images.
C1_ConstructionDerivesSizeAndObservations ==
  ConsistentInput =>
    /\ pc # "aborted_in_constructor"
    /\ Constructed =>
         LET first == low_res_images[1]
             w == first.width * downsampling_scale
             h == first.height * downsampling_scale
         IN  /\ image_size_ = Size(w, h)
             /\ num_channels_ = first.channels
             /\ Len(observations_) = Len(low_res_images)
             /\ \A k \in 1 .. Len(low_res_images) :
                  /\ observations_[k].width = w
                  /\ observations_[k].height = h
                  /\ observations_[k].channels = first.channels
                  /\ observations_[k].content = low_res_images[k].content

C1_Witness ==
  /\ pc = "ready"
  /\ Len(low_res_images) = 3
  /\ downsampling_scale = 2
  /\ low_res_images[1].width # low_res_images[1].height
  /\ low_res_images[2].width # low_res_images[1].width
  /\ low_res_images[3].height # low_res_images[1].height
  /\ Len(observations_) = 3

\* C2: with an empty list of images the constructor fails at its first
\* check: no element is read, no channel count, size or observation is
\* derived; and no constructed solver has zero observations.
C2_EmptyInputFailsFirst ==
  /\ low_res_images = << >> =>
       /\ pc \in {"construct", "aborted_in_constructor"}
       /\ elements_read = {}
       /\ num_channels_ = 0
       /\ image_size_ = Size(0, 0)
       /\ observations_ = << >>
  /\ Constructed => Len(observations_) > 0

C2_Witness ==
  /\ low_res_images = << >>
  /\ pc = "aborted_in_constructor"

\* C3: when some image at index i >= 1 (0-based) has a channel count other
\* than the first image's, at whatever position, construction never gets
\* past the channel check and no observation is produced.
ChannelMismatchAt(k) ==
  /\ k \in 2 .. Len(low_res_images)
  /\ low_res_images[k].channels # low_res_images[1].channels

C3_ChannelMismatchFails ==
  (\E k \in 2 .. Len(low_res_images) : ChannelMismatchAt(k)) =>
    /\ pc \in {"construct", "set_channels", "check_channels",
               "aborted_in_constructor"}
    /\ (pc = "check_channels" => \A k \in 2 .. i : ~ChannelMismatchAt(k))
    /\ observations_ = << >>
    /\ image_size_ = Size(0, 0)

C3_Witness ==
  /\ pc = "aborted_in_constructor"
  /\ Len(low_res_images) = 3
  /\ ~ChannelMismatchAt(2)
  /\ ChannelMismatchAt(3)

\* C4: whenever width * height * channels of the solver exceeds INT_MAX,
\* GetNumDataPoints fails fatally (it never returns).
C4_OverflowAlwaysFails ==
  (call.op = "GetNumDataPoints"
     /\ ProductExceedsIntMax(image_size_, num_channels_))
    => pc = "aborted_in_query"

\* C5: when width * height * channels does not exceed INT_MAX,
\* GetNumDataPoints returns exactly that product and changes nothing of the
\* solver.
C5_NumDataPointsIsProduct ==
  [][(call'.op = "GetNumDataPoints"
        /\ ~ProductExceedsIntMax(image_size_, num_channels_))
       => /\ pc' = "ready"
          /\ ret_int' =
               image_size_.width * image_size_.height * num_channels_
          /\ UNCHANGED << solver_state, input_vars >>]_vars

C5_Witness ==
  /\ call.op = "GetNumDataPoints"
  /\ pc = "ready"
  /\ image_size_ = Size(100, 100)
  /\ num_channels_ = 3
  /\ ret_int = 30000

\* The scale of a call, computed from its arguments.
CallScale(c) == [n |-> c.num_parameters * c.weight.n, d |-> c.weight.d]

\* y = x * scale, on rationals.
IsProduct(y, x, scale) == y.n * (x.d * scale.d) = (x.n * scale.n) * y.d

OtherOptionFields(opts) ==
  << opts.least_squares_solver, opts.use_numerical_differentiation,
     opts.numerical_differentiation_step, opts.split_channels >>

\* C6: with scale = numParameters * regularizationWeightSum, a call of
\* AdjustThresholdsAdaptively leaves the three thresholds unchanged when
\* scale < 1 (zero and negative included) and multiplies each by scale when
\* scale >= 1; no other option field changes.
C6_AdjustScalesByProduct ==
  [][call'.op = "AdjustThresholdsAdaptively" =>
       LET scale == CallScale(call')
       IN  /\ OtherOptionFields(options') = OtherOptionFields(options)
           /\ IF scale.n < scale.d
              THEN options' = options
              ELSE /\ IsProduct(options'.gradient_norm_threshold,
                                options.gradient_norm_threshold, scale)
                   /\ IsProduct(options'.cost_decrease_threshold,
                                options.cost_decrease_threshold, scale)
                   /\ IsProduct(options'.parameter_variation_threshold,
                                options.parameter_variation_threshold, scale)
    ]_vars

C6_Witness ==
  /\ call.op = "AdjustThresholdsAdaptively"
  /\ call.num_parameters = 2
  /\ call.weight = Rat(3, 2)
  /\ adjust_calls = 1
  /\ options.gradient_norm_threshold = Rat(3, 1024)
  /\ options.cost_decrease_threshold = Rat(3, 8)
  /\ options.parameter_variation_threshold = Rat(3, 1)

\* C7: starting from positive thresholds, no call of
\* AdjustThresholdsAdaptively, whatever its arguments, makes any of the
\* three thresholds smaller.
C7_ThresholdsNeverDecrease ==
  [][/\ DLeq(options.gradient_norm_threshold,
             options'.gradient_norm_threshold)
     /\ DLeq(options.cost_decrease_threshold,
             options'.cost_decrease_threshold)
     /\ DLeq(options.parameter_variation_threshold,
             options'.parameter_variation_threshold)]_vars

C7_Witness ==
  /\ call.op = "AdjustThresholdsAdaptively"
  /\ adjust_calls >= 2
  /\ call.num_parameters > 0
  /\ call.weight.n < 0
  /\ DLess(Rat(5, 1), options.gradient_norm_threshold)

RECURSIVE WeightTotal(_)
\* The sum of the weights of the entries, from the last entry backwards.
WeightTotal(entries) ==
  IF entries = << >> THEN [n |-> 0, d |-> 1]
  ELSE LET rest == WeightTotal(SubSeq(entries, 1, Len(entries) - 1))
           last == entries[Len(entries)][2]
       IN  Rat(rest.n * last.d + last.n * rest.d, rest.d * last.d)

\* C8: GetRegularizationParameterSum returns the sum of the weights of all
\* registered entries (0 when there is none, negative weights included) and
\* changes nothing of the solver.
C8_SumOfRegisteredWeights ==
  [][call'.op = "GetRegularizationParameterSum" =>
       /\ ret_double' = WeightTotal(regularizers_)
       /\ (regularizers_ = << >> => ret_double' = DFromInt(0))
       /\ UNCHANGED << solver_state, input_vars, pc >>]_vars

C8_Witness ==
  /\ call.op = "GetRegularizationParameterSum"
  /\ Len(regularizers_) = 3
  /\ regularizers_[1] = << "tv", Rat(3, 2) >>
  /\ regularizers_[2] = << "btv", Rat(-1, 1) >>
  /\ regularizers_[3] = << "tv", Rat(3, 2) >>
  /\ ret_double = Rat(2, 1)

\* C9: AddRegularizer never fails and appends exactly the entry
\* (term, weight) at the end, for any weight and also for a term that is
\* already registered: the length grows by one and the earlier entries keep
\* their values and their order.
C9_AddRegularizerAppends ==
  [][call'.op = "AddRegularizer" =>
       /\ pc' = "ready"
       /\ Len(regularizers_') = Len(regularizers_) + 1
       /\ \A k \in 1 .. Len(regularizers_) :
            regularizers_'[k] = regularizers_[k]
       /\ regularizers_'[Len(regularizers_')] =
            << call'.term, call'.weight >>]_vars

C9_Witness ==
  /\ call.op = "AddRegularizer"
  /\ call.weight.n < 0
  /\ Len(regularizers_) = 3
  /\ regularizers_[1] = regularizers_[3]
  /\ regularizers_[2] # regularizers_[1]

\* C10: after construction, observations, channel count and image size never
\* change, the previous list of regularizers is always a prefix of the
\* current one, and only AddRegularizer changes it.
C10_ConstructedStateIsFixed ==
  [][Constructed =>
       /\ observations_' = observations_
       /\ num_channels_' = num_channels_
       /\ image_size_' = image_size_
       /\ Len(regularizers_') >= Len(regularizers_)
       /\ SubSeq(regularizers_', 1, Len(regularizers_)) = regularizers_
       /\ (regularizers_' # regularizers_ => call'.op = "AddRegularizer")
    ]_vars

C10_Witness ==
  /\ pc = "ready"
  /\ call.op = "GetNumDataPoints"
  /\ Len(regularizers_) >= 2
  /\ Len(observations_) >= 2

====
